---------------------------- MODULE Spec2Model ----------------------------
(***************************************************************************)
(* Model of libro_diario_refactor.py: the class LibroDiario, its two       *)
(* methods agregar_transaccion and obtener_resumen, and a caller that      *)
(* invokes them in any order with arguments of the annotated types         *)
(* (fecha: str, descripcion: str, monto: float, tipo: str).                *)
(*                                                                         *)
(* monto is a Python float (IEEE-754 binary64, round-to-nearest-even).     *)
(* A float is modelled by a record [nan, hi, lo]: when nan is FALSE it is  *)
(* the number hi * 2^53 + lo, with hi and lo small integers.  On that      *)
(* grid the rounding of binary64 is computed exactly (see Round), so the   *)
(* sums of the model are the sums the program computes, bit for bit.       *)
(***************************************************************************)
EXTENDS Integers, Sequences, FiniteSets, TLC

VARIABLES
    transacciones,   \* self.transacciones: the ledger's list of dicts
    llamada,         \* the call made last: [op |-> method name, args |-> its arguments]
    excepcion,       \* the message of the ValueError that call raised, or None
    REPORTE,         \* the values obtener_resumen returned last: <<>> before any call
    vigente          \* history: REPORTE was returned and no append happened since

vars == <<transacciones, llamada, excepcion, REPORTE, vigente>>

\* The largest number of records the explored ledgers hold.
MaxTransacciones == 3

---------------------------------------------------------------------------
(* Python float                                                            *)

RECURSIVE Pow2(_)
Pow2(k) == IF k = 0 THEN 1 ELSE 2 * Pow2(k - 1)

\* floor(log2(n)) for n >= 1
RECURSIVE Log2(_)
Log2(n) == IF n <= 1 THEN 0 ELSE 1 + Log2(n \div 2)

\* The finite float hi * 2^53 + lo.
Float(h, l) == [nan |-> FALSE, hi |-> h, lo |-> l]

\* float('nan')
NaN == [nan |-> TRUE, hi |-> 0, lo |-> 0]

\* x > 0 on floats: False when x is NaN.
FloatGtZero(x) == ~x.nan /\ (x.hi > 0 \/ (x.hi = 0 /\ x.lo > 0))

\* x <= 0 on floats: False when x is NaN.
FloatLeqZero(x) == ~x.nan /\ (x.hi < 0 \/ (x.hi = 0 /\ x.lo <= 0))

\* The unit in the last place of the binade that holds h * 2^53 + l (h >= 1,
\* |l| far below 2^52): a 53-bit significand leaves steps of 2^(k+1) in
\* [2^(53+k), 2^(54+k)), and of 2^k just below 2^(53+k).
Ulp(h, l) ==
    LET k == Log2(h)
    IN  IF l < 0 /\ h = Pow2(k) THEN Pow2(k) ELSE Pow2(k + 1)

\* Round-to-nearest, ties-to-even, of the positive real h * 2^53 + l to binary64.
\* Below 2^53 every integer is a float.  Above, l is rounded to a multiple of the
\* ulp; h * 2^53 / ulp is even, so the significand's parity is that of the quotient.
RoundPos(h, l) ==
    IF h = 0 THEN Float(0, l)
    ELSE LET ulp == Ulp(h, l)
             q   == l \div ulp
             r   == l % ulp
             qr  == IF 2 * r < ulp THEN q
                    ELSE IF 2 * r > ulp THEN q + 1
                    ELSE IF q % 2 = 0 THEN q ELSE q + 1
         IN  Float(h, qr * ulp)

\* Rounding is symmetric in the sign.
Round(h, l) ==
    IF h > 0 \/ (h = 0 /\ l >= 0) THEN RoundPos(h, l)
    ELSE LET m == RoundPos(-h, -l) IN Float(-(m.hi), -(m.lo))

\* x + y on floats (the += of obtener_resumen).
FloatAdd(x, y) ==
    IF x.nan \/ y.nan THEN NaN ELSE Round(x.hi + y.hi, x.lo + y.lo)

\* x - y on floats.
FloatSub(x, y) ==
    IF x.nan \/ y.nan THEN NaN ELSE Round(x.hi - y.hi, x.lo - y.lo)

---------------------------------------------------------------------------
(* Python str: a string is the sequence of its characters.                 *)

Mayusculas == <<"A","B","C","D","E","F","G","H","I","J","K","L","M",
                "N","O","P","Q","R","S","T","U","V","W","X","Y","Z">>
Minusculas == <<"a","b","c","d","e","f","g","h","i","j","k","l","m",
                "n","o","p","q","r","s","t","u","v","w","x","y","z">>

\* The lowercase form of each uppercase letter.
ALower ==
    [c \in {Mayusculas[i] : i \in 1..Len(Mayusculas)} |->
        Minusculas[CHOOSE i \in 1..Len(Mayusculas) : Mayusculas[i] = c]]

\* The lowercase form of one character: other characters are kept.
lower_char(c) == IF c \in DOMAIN ALower THEN ALower[c] ELSE c

\* Mutant of lower: the string is compared as given.
lower_identidad(s) == s

\* str.lower()
lower(s) == [i \in 1..Len(s) |-> lower_char(s[i])]

\* The literals "ingreso" and "egreso".
INGRESO == <<"i","n","g","r","e","s","o">>
EGRESO == <<"e","g","r","e","s","o">>

\* The list ["ingreso", "egreso"] of line 35.
TiposValidos == {INGRESO, EGRESO}

---------------------------------------------------------------------------
(* class LibroDiario                                                       *)

None == "None"

\* The messages of the two ValueErrors (accents dropped).
ErrorMonto == "El monto debe ser un numero positivo."
ErrorTipo == "El tipo de transaccion debe ser 'ingreso' o 'egreso'."
KeyError == "KeyError"

\* Mutant of Transaccion: the kind is stored under another key.
Transaccion_sin_tipo(fecha, descripcion, monto, tipo_normalizado) ==
    [fecha |-> fecha, descripcion |-> descripcion,
     monto |-> monto, tipo_normalizado |-> tipo_normalizado]

\* The dict agregar_transaccion appends.
Transaccion(fecha, descripcion, monto, tipo_normalizado) ==
    [fecha |-> fecha, descripcion |-> descripcion,
     monto |-> monto, tipo |-> tipo_normalizado]

\* Mutant of agregar_transaccion: tipo is validated before monto.
agregar_transaccion_tipo_primero(ts, fecha, descripcion, monto, tipo) ==
    LET tipo_normalizado == lower(tipo)
    IN  IF tipo_normalizado \notin TiposValidos
        THEN [transacciones |-> ts, excepcion |-> ErrorTipo]
        ELSE IF FloatLeqZero(monto)
             THEN [transacciones |-> ts, excepcion |-> ErrorMonto]
             ELSE [transacciones |->
                       Append(ts, Transaccion(fecha, descripcion, monto, tipo_normalizado)),
                   excepcion |-> None]

\* Mutant of agregar_transaccion: the dict is appended before tipo is validated.
agregar_transaccion_append_primero(ts, fecha, descripcion, monto, tipo) ==
    IF FloatLeqZero(monto)
    THEN [transacciones |-> ts, excepcion |-> ErrorMonto]
    ELSE LET tipo_normalizado == lower(tipo)
             nuevas == Append(ts, Transaccion(fecha, descripcion, monto, tipo_normalizado))
         IN  IF tipo_normalizado \notin TiposValidos
             THEN [transacciones |-> nuevas, excepcion |-> ErrorTipo]
             ELSE [transacciones |-> nuevas, excepcion |-> None]

\* Mutant of agregar_transaccion: insert(0, ...) instead of append(...).
agregar_transaccion_insert(ts, fecha, descripcion, monto, tipo) ==
    IF FloatLeqZero(monto)
    THEN [transacciones |-> ts, excepcion |-> ErrorMonto]
    ELSE LET tipo_normalizado == lower(tipo)
         IN  IF tipo_normalizado \notin TiposValidos
             THEN [transacciones |-> ts, excepcion |-> ErrorTipo]
             ELSE [transacciones |->
                       <<Transaccion(fecha, descripcion, monto, tipo_normalizado)>> \o ts,
                   excepcion |-> None]

\* agregar_transaccion on a ledger whose list is ts: the list afterwards and the
\* exception raised (None on a normal return).
agregar_transaccion(ts, fecha, descripcion, monto, tipo) ==
    IF FloatLeqZero(monto)
    THEN [transacciones |-> ts, excepcion |-> ErrorMonto]
    ELSE LET tipo_normalizado == lower(tipo)
         IN  IF tipo_normalizado \notin TiposValidos
             THEN [transacciones |-> ts, excepcion |-> ErrorTipo]
             ELSE [transacciones |->
                       Append(ts, Transaccion(fecha, descripcion, monto, tipo_normalizado)),
                   excepcion |-> None]

\* The two accumulators of obtener_resumen after the loop over ts, left to right.
RECURSIVE Totales(_)
Totales(ts) ==
    IF ts = <<>>
    THEN [total_ingresos |-> Float(0, 0), total_egresos |-> Float(0, 0)]
    ELSE LET acc == Totales(SubSeq(ts, 1, Len(ts) - 1))
             transaccion == ts[Len(ts)]
         IN  IF transaccion.tipo = INGRESO
             THEN [acc EXCEPT !.total_ingresos = FloatAdd(@, transaccion.monto)]
             ELSE [acc EXCEPT !.total_egresos = FloatAdd(@, transaccion.monto)]

\* Mutant of obtener_resumen: the loop consumes the list (pop) as it sums.
obtener_resumen_pop(ts) ==
    LET acc == Totales(ts)
    IN  [transacciones |-> <<>>,
         retorno |->
             [total_ingresos |-> acc.total_ingresos,
              total_egresos |-> acc.total_egresos,
              balance_neto |-> FloatSub(acc.total_ingresos, acc.total_egresos)],
         excepcion |-> None]

\* obtener_resumen on a ledger whose list is ts: the list afterwards, the dict
\* returned and the exception raised (a dict lacking a key the loop reads raises
\* KeyError).
obtener_resumen(ts) ==
    IF \E i \in 1..Len(ts) : ~({"tipo", "monto"} \subseteq DOMAIN ts[i])
    THEN [transacciones |-> ts, retorno |-> <<>>, excepcion |-> KeyError]
    ELSE LET acc == Totales(ts)
         IN  [transacciones |-> ts,
              retorno |->
                  [total_ingresos |-> acc.total_ingresos,
                   total_egresos |-> acc.total_egresos,
                   balance_neto |-> FloatSub(acc.total_ingresos, acc.total_egresos)],
              excepcion |-> None]

---------------------------------------------------------------------------
(* The caller                                                              *)

\* fecha and descripcion are stored and never read: opaque strings.
Fechas == {"2025-01-28"}
Descripciones == {"Venta de servicios"}

\* -1.0, 0.0, 1.0, 2^53 and nan
Montos == {Float(0, -1), Float(0, 0), Float(0, 1), Float(1, 0), NaN}

Tipos == {INGRESO, EGRESO,
          <<"I","N","G","R","E","S","O">>, <<"E","g","r","e","s","o">>,
          <<"d","o","n","a","t","i","o","n">>}

\* LibroDiario(): an empty list.
Init ==
    /\ transacciones = <<>>
    /\ llamada = [op |-> "__init__", args |-> <<>>]
    /\ excepcion = None
    /\ REPORTE = <<>>
    /\ vigente = FALSE

\* LIBRO.agregar_transaccion(fecha, descripcion, monto, tipo)
Agregar(fecha, descripcion, monto, tipo) ==
    LET r == agregar_transaccion(transacciones, fecha, descripcion, monto, tipo)
    IN  /\ Len(r.transacciones) <= MaxTransacciones
        /\ transacciones' = r.transacciones
        /\ excepcion' = r.excepcion
        /\ llamada' = [op |-> "agregar_transaccion",
                       args |-> <<fecha, descripcion, monto, tipo>>]
        /\ vigente' = (vigente /\ r.excepcion # None)
        /\ UNCHANGED REPORTE

\* REPORTE = LIBRO.obtener_resumen()
Resumir ==
    LET r == obtener_resumen(transacciones)
    IN  /\ excepcion' = r.excepcion
        /\ llamada' = [op |-> "obtener_resumen", args |-> <<>>]
        /\ REPORTE' = IF r.excepcion = None THEN <<r.retorno>> ELSE REPORTE
        /\ vigente' = (r.excepcion = None)
        /\ transacciones' = r.transacciones

Next ==
    \/ \E fecha \in Fechas, descripcion \in Descripciones,
          monto \in Montos, tipo \in Tipos :
           Agregar(fecha, descripcion, monto, tipo)
    \/ Resumir

Spec == Init /\ [][Next]_vars

---------------------------------------------------------------------------
(* Vocabulary of the properties                                            *)

\* The step just taken was a call of agregar_transaccion / obtener_resumen.
FueAgregar == llamada.op = "agregar_transaccion"
FueResumir == llamada.op = "obtener_resumen"

\* The monto and tipo arguments of the last agregar_transaccion call.
ArgMonto == llamada.args[3]
ArgTipo == llamada.args[4]

\* s is a prefix of t.
EsPrefijo(s, t) == Len(s) <= Len(t) /\ SubSeq(t, 1, Len(s)) = s

\* The summary of the current ledger.
Resumen(ts) == obtener_resumen(ts).retorno

\* Real-number arithmetic (no rounding) on the numbers hi * 2^53 + lo.
RealAdd(x, y) == IF x.nan \/ y.nan THEN NaN ELSE Float(x.hi + y.hi, x.lo + y.lo)
RealSub(x, y) == IF x.nan \/ y.nan THEN NaN ELSE Float(x.hi - y.hi, x.lo - y.lo)
RealLeq(x, y) == ~x.nan /\ ~y.nan /\ (x.hi < y.hi \/ (x.hi = y.hi /\ x.lo <= y.lo))

\* The real sum of monto over the records of ts whose tipo is in K.
RECURSIVE SumaReal(_, _)
SumaReal(ts, K) ==
    IF ts = <<>> THEN Float(0, 0)
    ELSE LET resto == SumaReal(Tail(ts), K)
         IN  IF Head(ts).tipo \in K THEN RealAdd(Head(ts).monto, resto) ELSE resto

\* Every stored monto is a number > 0.
MontosPositivos(ts) == \A i \in 1..Len(ts) : FloatGtZero(ts[i].monto)

---------------------------------------------------------------------------
(* C1 *)

\* C1: every call of agregar_transaccion with monto <= 0, whatever the tipo,
\* raises the monto error (not the tipo error) and leaves the list as it was.
C1_MontoInvalido ==
    [][(FueAgregar' /\ FloatLeqZero(ArgMonto'))
          => /\ excepcion' = ErrorMonto
             /\ excepcion' # ErrorTipo
             /\ transacciones' = transacciones]_vars

\* A monto <= 0 with an unrecognized tipo was rejected on a non-empty ledger.
C1_Witness ==
    /\ FueAgregar
    /\ FloatLeqZero(ArgMonto)
    /\ lower(ArgTipo) \notin TiposValidos
    /\ excepcion = ErrorMonto
    /\ transacciones # <<>>

(* C2 *)

\* C2: every call of agregar_transaccion with monto > 0 and a tipo whose
\* lowercase form is neither "ingreso" nor "egreso" raises the tipo error, which
\* differs from the monto error, and leaves the list as it was.
C2_TipoInvalido ==
    [][(FueAgregar' /\ FloatGtZero(ArgMonto') /\ lower(ArgTipo') \notin TiposValidos)
          => /\ excepcion' = ErrorTipo
             /\ ErrorTipo # ErrorMonto
             /\ transacciones' = transacciones]_vars

\* A positive monto with the tipo "donation" was rejected on a non-empty ledger.
C2_Witness ==
    /\ FueAgregar
    /\ FloatGtZero(ArgMonto)
    /\ ArgTipo = <<"d","o","n","a","t","i","o","n">>
    /\ excepcion = ErrorTipo
    /\ transacciones # <<>>

(* C3 *)

\* C3: every call of agregar_transaccion with monto > 0 and a recognized tipo
\* returns normally and appends exactly one dict, holding the given fecha,
\* descripcion and monto and the lowercased tipo, after the dicts already
\* stored; and over every step the old list is a prefix of the new one.
C3_AppendOnly ==
    [][/\ EsPrefijo(transacciones, transacciones')
       /\ (FueAgregar' /\ FloatGtZero(ArgMonto') /\ lower(ArgTipo') \in TiposValidos)
             => /\ excepcion' = None
                /\ Len(transacciones') = Len(transacciones) + 1
                /\ SubSeq(transacciones', 1, Len(transacciones)) = transacciones
                /\ transacciones'[Len(transacciones')] =
                       [fecha |-> llamada'.args[1], descripcion |-> llamada'.args[2],
                        monto |-> ArgMonto', tipo |-> lower(ArgTipo')]]_vars

\* A valid call succeeded on a ledger that already held records.
C3_Witness ==
    /\ FueAgregar
    /\ FloatGtZero(ArgMonto)
    /\ lower(ArgTipo) \in TiposValidos
    /\ excepcion = None
    /\ Len(transacciones) >= 2
    /\ transacciones[Len(transacciones)].monto = ArgMonto

(* C4 *)

\* C4: every stored dict has monto > 0 and tipo "ingreso" or "egreso".
C4_TransaccionesValidas ==
    \A i \in 1..Len(transacciones) :
        /\ FloatGtZero(transacciones[i].monto)
        /\ transacciones[i].tipo \in {INGRESO, EGRESO}

(* C5 *)

\* C5: the summary of every reachable ledger has total_ingresos equal to the sum
\* of the stored montos of tipo "ingreso", total_egresos equal to the sum of
\* those of tipo "egreso", and balance_neto equal to their difference; all three
\* are zero on the empty ledger.
C5_ResumenEsSuma ==
    LET r == Resumen(transacciones)
    IN  /\ r.total_ingresos = SumaReal(transacciones, {INGRESO})
        /\ r.total_egresos = SumaReal(transacciones, {EGRESO})
        /\ r.balance_neto = RealSub(r.total_ingresos, r.total_egresos)
        /\ transacciones = <<>> =>
               r = [total_ingresos |-> Float(0, 0), total_egresos |-> Float(0, 0),
                    balance_neto |-> Float(0, 0)]

(* C6 *)

\* C6: a call of obtener_resumen leaves the list as it was, and returns what the
\* call before it returned when no dict was appended between the two (calls of
\* agregar_transaccion that raised may lie between them).
C6_LecturaPura ==
    [][FueResumir' => /\ transacciones' = transacciones
                      /\ vigente => REPORTE' = REPORTE]_vars

\* obtener_resumen returned on a non-empty ledger and a call of
\* agregar_transaccion was rejected since: the value returned is still the
\* summary of the ledger, which the next obtener_resumen returns again.
C6_Witness ==
    /\ FueAgregar
    /\ excepcion # None
    /\ vigente
    /\ transacciones # <<>>
    /\ REPORTE = <<Resumen(transacciones)>>

(* C7 *)

\* The ledger built from the empty one by agregar_transaccion on each of calls.
RECURSIVE Aplicar(_)
Aplicar(calls) ==
    IF calls = <<>> THEN <<>>
    ELSE LET c == calls[Len(calls)]
         IN  agregar_transaccion(Aplicar(SubSeq(calls, 1, Len(calls) - 1)),
                                 c.fecha, c.descripcion, c.monto, c.tipo).transacciones

\* C7: the valid calls that built the ledger, made in any other order on an empty
\* ledger, give the same summary.
C7_OrdenIndependiente ==
    MontosPositivos(transacciones) =>
        \A p \in Permutations(1..Len(transacciones)) :
            Resumen(Aplicar([i \in 1..Len(transacciones) |-> transacciones[p[i]]]))
                = Resumen(transacciones)

(* C8 *)

\* c is the letter k in lower or upper case.
MismaLetra(c, k) ==
    c = k \/ \E i \in 1..Len(Minusculas) : Minusculas[i] = k /\ Mayusculas[i] = c

\* s spells the lowercase label in upper, lower or mixed case.
EsGrafia(s, label) ==
    Len(s) = Len(label) /\ \A i \in 1..Len(s) : MismaLetra(s[i], label[i])

\* C8: a call of agregar_transaccion with monto > 0 and any spelling, in upper,
\* lower or mixed case, of "ingreso" or "egreso" returns normally, stores the
\* lowercase label, and the summary counts the monto in the total of that kind
\* alone: that total becomes the float sum of the old total and the monto, the
\* other total stays.
C8_TipoSinMayusculas ==
    [][\A label \in {INGRESO, EGRESO} :
        (FueAgregar' /\ FloatGtZero(ArgMonto') /\ EsGrafia(ArgTipo', label))
          => LET a == Resumen(transacciones)
                 b == Resumen(transacciones')
             IN  /\ excepcion' = None
                 /\ Len(transacciones') = Len(transacciones) + 1
                 /\ transacciones'[Len(transacciones')].tipo = label
                 /\ label = INGRESO =>
                        /\ b.total_ingresos = FloatAdd(a.total_ingresos, ArgMonto')
                        /\ b.total_egresos = a.total_egresos
                 /\ label = EGRESO =>
                        /\ b.total_egresos = FloatAdd(a.total_egresos, ArgMonto')
                        /\ b.total_ingresos = a.total_ingresos]_vars

\* "INGRESO" in capitals was accepted, stored as "ingreso" and counted as income.
C8_Witness ==
    /\ FueAgregar
    /\ ArgTipo = <<"I","N","G","R","E","S","O">>
    /\ FloatGtZero(ArgMonto)
    /\ excepcion = None
    /\ transacciones[Len(transacciones)].tipo = INGRESO
    /\ Resumen(transacciones).total_ingresos = ArgMonto
    /\ Resumen(transacciones).total_egresos = Float(0, 0)

(* C9 *)

\* The values a float can take in the model.
Floats == [nan : BOOLEAN, hi : Int, lo : Int]

\* C9: on every reachable ledger obtener_resumen raises nothing and returns a
\* dict of exactly the three keys, each a float; and the call that was made
\* raised nothing.
C9_ResumenSinError ==
    LET r == obtener_resumen(transacciones)
    IN  /\ r.excepcion = None
        /\ DOMAIN r.retorno = {"total_ingresos", "total_egresos", "balance_neto"}
        /\ \A k \in DOMAIN r.retorno : r.retorno[k] \in Floats
        /\ FueResumir => (excepcion = None /\ REPORTE = <<r.retorno>>)

\* obtener_resumen returned after accepted and rejected calls.
C9_Witness ==
    /\ FueResumir
    /\ excepcion = None
    /\ Len(transacciones) >= 2
    /\ Len(REPORTE) = 1

(* C10 *)

\* C10, on ledgers whose montos are all > 0: an accepted agregar_transaccion of
\* monto a raises the total of its kind by exactly a, leaves the other total and
\* moves balance_neto by a; a rejected one changes nothing; both totals are
\* >= 0 and never decrease; and the two totals add up to the sum of all montos.
C10_ResumenIncremental ==
    [][MontosPositivos(transacciones') =>
        LET a == Resumen(transacciones)
            b == Resumen(transacciones')
        IN  /\ (FueAgregar' /\ excepcion' = None /\ lower(ArgTipo') = INGRESO) =>
                   /\ b.total_ingresos = RealAdd(a.total_ingresos, ArgMonto')
                   /\ b.total_egresos = a.total_egresos
                   /\ b.balance_neto = RealAdd(a.balance_neto, ArgMonto')
            /\ (FueAgregar' /\ excepcion' = None /\ lower(ArgTipo') = EGRESO) =>
                   /\ b.total_egresos = RealAdd(a.total_egresos, ArgMonto')
                   /\ b.total_ingresos = a.total_ingresos
                   /\ b.balance_neto = RealSub(a.balance_neto, ArgMonto')
            /\ (FueAgregar' /\ excepcion' # None) => b = a
            /\ RealLeq(Float(0, 0), b.total_ingresos)
            /\ RealLeq(Float(0, 0), b.total_egresos)
            /\ RealLeq(a.total_ingresos, b.total_ingresos)
            /\ RealLeq(a.total_egresos, b.total_egresos)
            /\ RealAdd(b.total_ingresos, b.total_egresos)
                   = SumaReal(transacciones', {INGRESO, EGRESO})]_vars

=============================================================================
